---- MODULE Spec2Model ----
(***************************************************************************)
(* LL(1) grammar analyser of Demo_02.cpp: class LL1Parser and the pipeline *)
(* of main (loadGrammar; computeFirst; computeFollow; buildParseTable;     *)
(* parseTokens).                                                           *)
(*                                                                         *)
(* Strings are atomic values here.  A grammar line is the sequence of its  *)
(* whitespace-delimited words (what LL1Parser::split produces from it), and *)
(* isupper(sym[0]) is the membership test UpperInitial.                    *)
(***************************************************************************)
EXTENDS Integers, Sequences, FiniteSets, TLC

\* ------------------------------------------------------------------ bounds

\* Largest number of lines of a grammar file.
MaxLines == 3
\* Largest number of tokens of a token stream.
MaxTokens == 2
\* Memory bound of the parse stack: pushing beyond it ends the run (bad_alloc).
MaxStack == 5
\* How many times a caller invokes computeFirst before computeFollow (main: once).
MaxFirstCalls == 2

\* ------------------------------------------------------------- input pools

\* The lines a grammar file is made of (each already split into words).
LinePool ==
  { <<"S", "->", "A", "b">>,
    <<"S", "->", "a", "A">>,
    <<"S", "->", "A", "S">>,
    <<"S", "->", "a">>,
    <<"A", "->", "a">>,
    <<"A", "->", "epsilon">>,
    <<"$", "->", "a">>,
    <<"a", "->", "b">>,
    <<"epsilon", "->", "a">>,
    <<"S", "->">>,
    <<"S", "a", "b">> }

GrammarFiles == UNION { [1..n -> LinePool] : n \in 0..MaxLines }

\* The tokens a token stream is made of: struct Token {line, type, value}.
TokenPool ==
  { [line |-> 1,  type |-> "a", value |-> "a"],
    [line |-> 2,  type |-> "b", value |-> "b"],
    [line |-> 3,  type |-> "a", value |-> "$"],
    [line |-> -4, type |-> "b", value |-> "b"],
    [line |-> 5,  type |-> "S", value |-> "S"],
    [line |-> 6,  type |-> "$", value |-> "$"] }

TokenStreams == UNION { [1..n -> TokenPool] : n \in 0..MaxTokens }

\* Every string that can be a symbol: the words of the pool, the two markers
\* and the empty string (startSymbol of a parser that loaded no rule).
Symbols == {"S", "A", "a", "b", "epsilon", "$", ""}

\* The symbols whose first character is an uppercase letter: isupper(sym[0]).
UpperInitial == {"S", "A"}

\* What a read outside the token vector can yield (input[index - 1], index = 0).
GarbageLine == {0, 77}
GarbageText == {"", "?"}

\* -------------------------------------------------------------------- state

VARIABLES
  pc,            \* position of main / of the running method
  grammar,       \* vector<GrammarRule>
  terminals,     \* set<string>
  nonTerminals,  \* set<string>
  startSymbol,   \* string
  firstSet,      \* map<string, set<string>>; an absent key reads as {}
  followSet,     \* map<string, set<string>>; an absent key reads as {}
  parseTable,    \* map<pair<string,string>, GrammarRule>
  changed,       \* computeFirst / computeFollow: bool changed
  ri,            \* computeFirst / computeFollow: index of the rule in the for loop
  si,            \* computeFollow: index i into rule.rhs
  firstCalls,    \* completed calls of computeFirst
  input,         \* parseTokens: tokens plus the appended {-1, "$", "$"}
  index,         \* parseTokens: size_t index (0-based)
  parseStack,    \* parseTokens: stack<string>, top is the last element
  errFile,       \* lines written to the error destination
  result         \* "none", "true" or "false": what parseTokens returned

vars == << pc, grammar, terminals, nonTerminals, startSymbol, firstSet, followSet,
           parseTable, changed, ri, si, firstCalls, input, index, parseStack,
           errFile, result >>

analysisVars == << grammar, terminals, nonTerminals, startSymbol >>
parseVars == << input, index, parseStack, errFile, result >>

EmptySets == [s \in Symbols |-> {}]
EmptyTable == [k \in {} |-> [lhs |-> "", rhs |-> << >>]]

Init ==
  /\ pc = "load"
  /\ grammar = << >>
  /\ terminals = {}
  /\ nonTerminals = {}
  /\ startSymbol = ""
  /\ firstSet = EmptySets
  /\ followSet = EmptySets
  /\ parseTable = EmptyTable
  /\ changed = FALSE
  /\ ri = 1
  /\ si = 1
  /\ firstCalls = 0
  /\ input = << >>
  /\ index = 0
  /\ parseStack = << >>
  /\ errFile = << >>
  /\ result = "none"

\* -------------------------------------------------------------- loadGrammar

isupper0(sym) == sym \in UpperInitial

\* One iteration of the getline loop: g is the parser state so far.
loadLine(g, parts) ==
  IF parts = << >> THEN g
  ELSE IF Len(parts) < 3 \/ parts[2] # "->" THEN g
  ELSE LET rule == [lhs |-> parts[1], rhs |-> SubSeq(parts, 3, Len(parts))]
           rhsSyms == { rule.rhs[i] : i \in 1..Len(rule.rhs) }
       IN [ grammar      |-> Append(g.grammar, rule),
            terminals    |-> g.terminals \cup { s \in rhsSyms : ~isupper0(s) },
            nonTerminals |-> g.nonTerminals \cup {rule.lhs}
                               \cup { s \in rhsSyms : isupper0(s) },
            startSymbol  |-> IF g.startSymbol = "" THEN rule.lhs ELSE g.startSymbol ]

RECURSIVE loadLines(_, _, _)
loadLines(g, file, k) ==
  IF k > Len(file) THEN g ELSE loadLines(loadLine(g, file[k]), file, k + 1)

loadGrammar ==
  /\ pc = "load"
  /\ \E file \in GrammarFiles :
       LET g == loadLines([grammar |-> << >>, terminals |-> {}, nonTerminals |-> {},
                           startSymbol |-> ""], file, 1)
       IN /\ grammar' = g.grammar
          /\ terminals' = g.terminals
          /\ nonTerminals' = g.nonTerminals
          /\ startSymbol' = g.startSymbol
  /\ pc' = "first"
  /\ changed' = FALSE
  /\ ri' = 1
  /\ UNCHANGED << firstSet, followSet, parseTable, si, firstCalls >>
  /\ UNCHANGED parseVars

\* ------------------------------------------------------------ FIRST engine

isTerminal(symbol) == symbol \in terminals

\* Line 87: firstSet[symbol].  operator[] inserts an empty set for an absent
\* key and leaves a present entry as it is; either way this is the set read.
firstLookupCleared(symbol) == {}
firstLookup(symbol) == firstSet[symbol]

\* firstSet once computeFirstOf has looked up the symbols it can reach (those
\* that are not terminals): every entry reads as before.
firstSetLookedUp ==
  [s \in Symbols |-> IF s \in nonTerminals \ terminals THEN firstLookup(s) ELSE firstSet[s]]

\* The for loop of computeFirstOf from position k on, first being acc so far.
RECURSIVE firstOfFrom(_, _, _)
firstOfFrom(symbols, k, acc) ==
  IF k > Len(symbols) THEN acc
  ELSE IF isTerminal(symbols[k]) THEN acc \cup {symbols[k]}
  ELSE LET firstOfNonTerminal == firstLookup(symbols[k])
       IN IF "epsilon" \notin firstOfNonTerminal
          THEN acc \cup firstOfNonTerminal
          ELSE firstOfFrom(symbols, k + 1, acc \cup firstOfNonTerminal)

computeFirstOf(symbols) == firstOfFrom(symbols, 1, {})

\* Line 104: firstOfLHS.insert(firstOfRHS.begin(), firstOfRHS.end()).
firstOverwritten(firstOfLHS, firstOfRHS) == firstOfRHS
firstMerged(firstOfLHS, firstOfRHS) == firstOfLHS \cup firstOfRHS

\* Line 106: firstOfLHS.size() > oldSize.
firstGrownOrEqual(oldSize, firstOfLHS) == Cardinality(firstOfLHS) >= oldSize
firstComparedWithItself(oldSize, firstOfLHS) ==
  Cardinality(firstOfLHS) > Cardinality(firstOfLHS)
firstGrown(oldSize, firstOfLHS) == Cardinality(firstOfLHS) > oldSize

\* Body of the for loop of computeFirst for one rule.

computeFirstRule ==
  /\ pc = "first"
  /\ ri <= Len(grammar)
  /\ LET rule == grammar[ri]
         old == firstSet[rule.lhs]
         firstOfLHS == firstMerged(old, computeFirstOf(rule.rhs))
     IN /\ firstSet' = [firstSet EXCEPT ![rule.lhs] = firstOfLHS]
        /\ changed' = (changed \/ firstGrown(Cardinality(old), firstOfLHS))
  /\ ri' = ri + 1
  /\ UNCHANGED << pc, followSet, parseTable, si, firstCalls >>
  /\ UNCHANGED analysisVars
  /\ UNCHANGED parseVars

\* while (changed): after the last rule of a pass.
firstLoopAgain(ch) == ch

computeFirstPassEnd ==
  /\ pc = "first"
  /\ ri > Len(grammar)
  /\ IF firstLoopAgain(changed)
     THEN /\ changed' = FALSE
          /\ ri' = 1
          /\ UNCHANGED << pc, firstCalls >>
     ELSE /\ pc' = "firstDone"
          /\ firstCalls' = firstCalls + 1
          /\ UNCHANGED << changed, ri >>
  /\ UNCHANGED << firstSet, followSet, parseTable, si >>
  /\ UNCHANGED analysisVars
  /\ UNCHANGED parseVars

\* The caller invokes computeFirst once more.
computeFirstAgain ==
  /\ pc = "firstDone"
  /\ firstCalls < MaxFirstCalls
  /\ pc' = "first"
  /\ changed' = FALSE
  /\ ri' = 1
  /\ UNCHANGED << firstSet, followSet, parseTable, si, firstCalls >>
  /\ UNCHANGED analysisVars
  /\ UNCHANGED parseVars

\* main line 220: the caller goes on to computeFollow.
callComputeFollow ==
  /\ pc = "firstDone"
  /\ pc' = "follow"
  /\ changed' = FALSE
  /\ ri' = 1
  /\ si' = 1
  /\ UNCHANGED << firstSet, followSet, parseTable, firstCalls >>
  /\ UNCHANGED analysisVars
  /\ UNCHANGED parseVars

\* ----------------------------------------------------------- FOLLOW engine

\* Lines 114: what the start symbol gets before the scan of the rules.
followSeed(nonTerminal) == IF nonTerminal = startSymbol THEN {"$"} ELSE {}

\* Lines 118-130: what the occurrence rule.rhs[i] of nonTerminal adds to follow.
followAt(rule, i) ==
  IF i + 1 <= Len(rule.rhs)
  THEN LET firstOfNext == computeFirstOf(SubSeq(rule.rhs, i + 1, Len(rule.rhs)))
       IN firstOfNext \cup
          (IF "epsilon" \in firstOfNext THEN followSet[rule.lhs] ELSE {})
  ELSE followSet[rule.lhs]

computeFollowOf(nonTerminal) ==
  followSeed(nonTerminal) \cup
  UNION { UNION { followAt(grammar[r], i) :
                    i \in { j \in 1..Len(grammar[r].rhs) : grammar[r].rhs[j] = nonTerminal } } :
          r \in 1..Len(grammar) }

\* Body of the inner for loop of computeFollow for rule.rhs[si].
computeFollowSymbol ==
  /\ pc = "follow"
  /\ ri <= Len(grammar)
  /\ LET rule == grammar[ri]
         sym == rule.rhs[si]
     IN /\ IF sym \in nonTerminals
           THEN LET followOfRHS == computeFollowOf(sym)
                    oldSize == Cardinality(followSet[sym])
                    new == followSet[sym] \cup followOfRHS
                IN /\ followSet' = [followSet EXCEPT ![sym] = new]
                   /\ changed' = (changed \/ Cardinality(new) > oldSize)
           ELSE UNCHANGED << followSet, changed >>
        /\ IF si < Len(rule.rhs)
           THEN /\ si' = si + 1
                /\ ri' = ri
           ELSE /\ si' = 1
                /\ ri' = ri + 1
  /\ firstSet' = firstSetLookedUp
  /\ UNCHANGED << pc, parseTable, firstCalls >>
  /\ UNCHANGED analysisVars
  /\ UNCHANGED parseVars

computeFollowPassEnd ==
  /\ pc = "follow"
  /\ ri > Len(grammar)
  /\ IF changed
     THEN /\ changed' = FALSE
          /\ ri' = 1
          /\ si' = 1
          /\ pc' = pc
     ELSE /\ pc' = "table"
          /\ UNCHANGED << changed, ri, si >>
  /\ UNCHANGED << firstSet, followSet, parseTable, firstCalls >>
  /\ UNCHANGED analysisVars
  /\ UNCHANGED parseVars

\* ------------------------------------------------------ parse table builder

\* The lookaheads for which buildParseTable stores `rule` (lines 158-169).
ruleCells(rule) ==
  LET firstOfRHS == computeFirstOf(rule.rhs)
  IN (firstOfRHS \ {"epsilon"}) \cup
     (IF "epsilon" \in firstOfRHS THEN followSet[rule.lhs] ELSE {})

\* parseTable[{rule.lhs, terminal}] = rule for every such lookahead.
tableKeepingFirst(tbl, rule) ==
  LET keys == { <<rule.lhs, t>> : t \in ruleCells(rule) }
  IN [k \in (DOMAIN tbl) \cup keys |-> IF k \in DOMAIN tbl THEN tbl[k] ELSE rule]
tableWithRule(tbl, rule) ==
  LET keys == { <<rule.lhs, t>> : t \in ruleCells(rule) }
  IN [k \in (DOMAIN tbl) \cup keys |-> IF k \in keys THEN rule ELSE tbl[k]]

RECURSIVE tableFrom(_, _)
tableFrom(tbl, k) ==
  IF k > Len(grammar) THEN tbl ELSE tableFrom(tableWithRule(tbl, grammar[k]), k + 1)

buildParseTable ==
  /\ pc = "table"
  /\ parseTable' = tableFrom(parseTable, 1)
  /\ pc' = "parse"
  /\ firstSet' = firstSetLookedUp
  /\ UNCHANGED << followSet, changed, ri, si, firstCalls >>
  /\ UNCHANGED analysisVars
  /\ UNCHANGED parseVars

\* ------------------------------------------------------------ parser engine

EndToken == [line |-> -1, type |-> "$", value |-> "$"]

\* Lines 175-181: the set-up of parseTokens.
parseTokensStart ==
  /\ pc = "parse"
  /\ \E tokens \in TokenStreams : input' = Append(tokens, EndToken)
  /\ parseStack' = << "$", startSymbol >>
  /\ index' = 0
  /\ errFile' = << >>
  /\ result' = "none"
  /\ pc' = "run"
  /\ UNCHANGED << firstSet, followSet, parseTable, changed, ri, si, firstCalls >>
  /\ UNCHANGED analysisVars

top == parseStack[Len(parseStack)]
pop == SubSeq(parseStack, 1, Len(parseStack) - 1)
\* input[index] of the code (0-based) is input[index + 1] here.
current == input[index + 1]
currentToken == current.type

loopFrame == << firstSet, followSet, parseTable, changed, ri, si, firstCalls, input >>

\* Lines 186-189.
acceptsOnEndOfInput == currentToken = "$"
acceptsOnlyAppended == top = "$" /\ currentToken = "$" /\ index = Len(input) - 1
isAccept == top = "$" /\ currentToken = "$"
\* Line 190.
isShift == ~isAccept /\ top = currentToken
\* Line 194.
isMismatch == ~isAccept /\ ~isShift /\ isTerminal(top)
\* Line 199: the table is consulted.
isLookup == ~isAccept /\ ~isShift /\ ~isMismatch
hasEntry == << top, currentToken >> \in DOMAIN parseTable

Accept ==
  /\ pc = "run"
  /\ parseStack # << >>
  /\ isAccept
  /\ result' = "true"
  /\ pc' = "done"
  /\ UNCHANGED << index, parseStack, errFile >>
  /\ UNCHANGED loopFrame
  /\ UNCHANGED analysisVars

Shift ==
  /\ pc = "run"
  /\ parseStack # << >>
  /\ isShift
  /\ parseStack' = pop
  /\ index' = index + 1
  /\ UNCHANGED << pc, errFile, result >>
  /\ UNCHANGED loopFrame
  /\ UNCHANGED analysisVars

ErrorTerminalMismatch ==
  /\ pc = "run"
  /\ parseStack # << >>
  /\ isMismatch
  /\ errFile' = Append(errFile, [kind |-> "expected", line |-> current.line,
                                 expected |-> top, literal |-> current.value])
  /\ result' = "false"
  /\ pc' = "done"
  /\ UNCHANGED << index, parseStack >>
  /\ UNCHANGED loopFrame
  /\ UNCHANGED analysisVars

\* Line 202: the two conditional reads.  input[index - 1] with index = 0 is a
\* read outside the vector: any value, or the end of the process.
readsPreviousLine == current.line < 0
readsPreviousValue == current.value = "$"
readsOutside == index = 0 /\ (readsPreviousLine \/ readsPreviousValue)

reportedLines ==
  IF readsPreviousLine
  THEN (IF index >= 1 THEN {input[index].line} ELSE GarbageLine)
  ELSE {current.line}

reportedLiterals ==
  IF readsPreviousValue
  THEN (IF index >= 1 THEN {input[index].value} ELSE GarbageText)
  ELSE {current.value}

ErrorNoEntry ==
  /\ pc = "run"
  /\ parseStack # << >>
  /\ isLookup
  /\ ~hasEntry
  /\ \/ /\ \E l \in reportedLines, v \in reportedLiterals :
             errFile' = Append(errFile, [kind |-> "unexpected", line |-> l,
                                         expected |-> "", literal |-> v])
        /\ result' = "false"
        /\ pc' = "done"
     \/ /\ readsOutside
        /\ pc' = "crashed"
        /\ UNCHANGED << errFile, result >>
  /\ UNCHANGED << index, parseStack >>
  /\ UNCHANGED loopFrame
  /\ UNCHANGED analysisVars

\* Lines 208-210: push rhs[k], rhs[k-1], ..., rhs[1] except "epsilon".
RECURSIVE pushRhs(_, _, _)
pushRhs(stack, rhs, k) ==
  IF k = 0 THEN stack
  ELSE pushRhs(IF rhs[k] # "epsilon" THEN Append(stack, rhs[k]) ELSE stack, rhs, k - 1)

expanded == LET rule == parseTable[<< top, currentToken >>]
            IN pushRhs(pop, rule.rhs, Len(rule.rhs))

Expand ==
  /\ pc = "run"
  /\ parseStack # << >>
  /\ isLookup
  /\ hasEntry
  /\ \/ /\ Len(expanded) <= MaxStack
        /\ parseStack' = expanded
        /\ UNCHANGED pc
     \/ /\ Len(expanded) > MaxStack
        /\ pc' = "crashed"
        /\ UNCHANGED parseStack
  /\ UNCHANGED << index, errFile, result >>
  /\ UNCHANGED loopFrame
  /\ UNCHANGED analysisVars

\* Line 213: the loop condition fails.
EmptyStackExit ==
  /\ pc = "run"
  /\ parseStack = << >>
  /\ result' = "false"
  /\ pc' = "done"
  /\ UNCHANGED << index, parseStack, errFile >>
  /\ UNCHANGED loopFrame
  /\ UNCHANGED analysisVars

\* ------------------------------------------------------------ specification

\* The steps of computeFirst, computeFollow and buildParseTable.
Compute ==
  \/ computeFirstRule
  \/ computeFirstPassEnd
  \/ callComputeFollow
  \/ computeFollowSymbol
  \/ computeFollowPassEnd
  \/ buildParseTable

Analyse == loadGrammar \/ Compute

ParseStep ==
  \/ Accept
  \/ Shift
  \/ ErrorTerminalMismatch
  \/ ErrorNoEntry
  \/ Expand
  \/ EmptyStackExit

Next == Analyse \/ parseTokensStart \/ ParseStep

Spec == Init /\ [][Next]_vars

\* A running parseTokens loop executes its next iteration.
FairSpec == Spec /\ WF_vars(ParseStep)

\* The analysis stages alone (load, FIRST, FOLLOW, table), run to completion.
\* A running computeFirst or computeFollow loop executes its next statement.
FairAnalysis == Init /\ [][Analyse]_vars /\ WF_vars(Compute)

\* The analysis stages of a caller that may invoke computeFirst repeatedly.
AnalyseRepeated == Analyse \/ computeFirstAgain
RepeatedFirst == Init /\ [][AnalyseRepeated]_vars

\* --------------------------------------------- grammar-theoretic references

\* The token types of the supplied stream (input without the appended token).
supplied == SubSeq(input, 1, Len(input) - 1)
word == [i \in 1..Len(supplied) |-> supplied[i].type]

lhsSymbols == { grammar[r].lhs : r \in 1..Len(grammar) }
rhsSymbols == UNION { { grammar[r].rhs[i] : i \in 1..Len(grammar[r].rhs) } :
                      r \in 1..Len(grammar) }

\* matches(rhs, k, i, j, D): rhs[k..] derives word[i+1..j], the nonterminals
\* deriving what D says.
RECURSIVE matches(_, _, _, _, _)
matches(rhs, k, i, j, D) ==
  IF k > Len(rhs) THEN i = j
  ELSE IF rhs[k] = "epsilon" THEN matches(rhs, k + 1, i, j, D)
  ELSE IF rhs[k] \notin lhsSymbols
       THEN i < j /\ word[i + 1] = rhs[k] /\ matches(rhs, k + 1, i + 1, j, D)
       ELSE \E m \in i..j : << rhs[k], i, m >> \in D /\ matches(rhs, k + 1, m, j, D)

derivesStep(D) ==
  { t \in lhsSymbols \X (0..Len(word)) \X (0..Len(word)) :
      \E r \in 1..Len(grammar) :
        grammar[r].lhs = t[1] /\ t[2] <= t[3] /\ matches(grammar[r].rhs, 1, t[2], t[3], D) }

RECURSIVE derivesFrom(_)
derivesFrom(D) == LET D2 == D \cup derivesStep(D) IN IF D2 = D THEN D ELSE derivesFrom(D2)

\* The supplied token types are derivable from the start symbol.
Derivable == << startSymbol, 0, Len(word) >> \in derivesFrom({})

\* The nonterminals that derive the empty sequence.
RECURSIVE nullableFrom(_)
nullableFrom(N) ==
  LET N2 == N \cup { grammar[r].lhs :
                       r \in { q \in 1..Len(grammar) :
                                 \A i \in 1..Len(grammar[q].rhs) :
                                   grammar[q].rhs[i] \in N \cup {"epsilon"} } }
  IN IF N2 = N THEN N ELSE nullableFrom(N2)

Nullable == nullableFrom({})

\* No two rules claim the same table cell.
NoConflict ==
  \A r1, r2 \in 1..Len(grammar) :
    (r1 < r2 /\ grammar[r1].lhs = grammar[r2].lhs)
      => ruleCells(grammar[r1]) \cap ruleCells(grammar[r2]) = {}

\* The returned run made no read outside the token vector.
readsInside ==
  ~(errFile # << >> /\ errFile[1].kind = "unexpected" /\ readsOutside)

analysed == pc \in {"table", "parse", "run", "done", "crashed"}
returned == pc = "done"

\* ------------------------------------------------------------------ claims

\* C1: for an LL(1) grammar with uppercase-initial nonterminals and
\* non-uppercase terminals and a stream of terminal-typed tokens, parseTokens
\* returns true if and only if the token types are derivable from the start
\* symbol.
C1_Pre ==
  /\ Len(grammar) >= 1
  /\ NoConflict
  /\ lhsSymbols \subseteq UpperInitial
  /\ \A i \in 1..Len(word) : word[i] \in terminals \ {"epsilon", "$"}

C1_AcceptIffDerivable ==
  (returned /\ readsInside /\ C1_Pre) => (result = "true" <=> Derivable)

\* C2: after computeFollow, for a grammar with at least one rule, the stored
\* FOLLOW set of the start symbol contains "$".
C2_StartFollowHasEnd ==
  (analysed /\ Len(grammar) >= 1 /\ lhsSymbols \subseteq UpperInitial)
    => "$" \in followSet[startSymbol]

\* C3: with "$" no symbol of the grammar and no supplied token of type "$",
\* parseTokens returns true only with every supplied token shifted and the
\* stack exactly <<"$">>; once the input is exhausted with a symbol on the
\* stack that cannot vanish, or the stack is down to "$" with tokens left, the
\* run stays in that situation until it ends, and it does not end in true.
C3_Pre ==
  /\ "$" \notin lhsSymbols \cup rhsSymbols
  /\ \A i \in 1..Len(word) : word[i] # "$"

canVanish(sym) == sym \in Nullable \/ sym = "epsilon"

inputExhausted == index = Len(input) - 1

C3_MustReject ==
  /\ pc = "run"
  /\ C3_Pre
  /\ \/ /\ inputExhausted
        /\ \E k \in 2..Len(parseStack) : ~canVanish(parseStack[k])
     \/ /\ parseStack = << "$" >>
        /\ ~inputExhausted

C3_AcceptOnlyAtEnd ==
  /\ []((returned /\ result = "true" /\ C3_Pre)
          => (inputExhausted /\ parseStack = << "$" >>))
  /\ [][C3_MustReject => (result' # "true" /\ (pc' = "run" => C3_MustReject'))]_vars

C3_Witness ==
  /\ returned
  /\ C3_Pre
  /\ result = "true"
  /\ Len(word) = MaxTokens
  /\ Nullable # {}

\* C4: for every grammar and token stream the parseTokens loop ends: it
\* reaches Accept, an Error state or the empty-stack exit.
C4_ParseTerminates == (pc = "run") ~> (pc \in {"done", "crashed"})

\* C5: the computeFirst loop and the computeFollow loop each terminate.
C5_FixpointsTerminate ==
  /\ (pc = "first") ~> (pc = "firstDone")
  /\ (pc = "follow") ~> (pc = "table")

C5_Witness ==
  /\ pc = "table"
  /\ Len(grammar) = MaxLines
  /\ \E s \in Symbols : Cardinality(firstSet[s]) >= 2 /\ Cardinality(followSet[s]) >= 2

\* C6: no step removes an element from a stored FIRST set or FOLLOW set.
C6_SetsOnlyGrow ==
  [][\A s \in Symbols : firstSet[s] \subseteq firstSet'[s]
                          /\ followSet[s] \subseteq followSet'[s]]_vars

C6_Witness ==
  /\ pc = "follow"
  /\ changed
  /\ \E s \in Symbols : Cardinality(firstSet[s]) >= 2
  /\ \E s \in Symbols : Cardinality(followSet[s]) >= 2

\* C7: a run of parseTokens that returns false has written exactly one
\* diagnostic line, and a run that returns true has written none.
C7_OneDiagnosticOnReject ==
  returned => /\ result = "false" => Len(errFile) = 1
              /\ result = "true" => Len(errFile) = 0

\* C8: in Error-no-entry the reported line and literal come from the same
\* token: the previous one when the current token is the appended
\* end-of-input token, the current one otherwise.
C8_Designated == IF inputExhausted THEN index ELSE index + 1

C8_SameToken ==
  (returned /\ readsInside /\ Len(grammar) >= 1
     /\ errFile # << >> /\ errFile[1].kind = "unexpected" /\ C8_Designated >= 1)
    => /\ errFile[1].line = input[C8_Designated].line
       /\ errFile[1].literal = input[C8_Designated].value

\* C9: computeFirstOf of the empty symbol sequence is {"epsilon"}.
C9_EmptyYieldsEpsilon == computeFirstOf(<< >>) = {"epsilon"}

\* C10: a second call of computeFirst, made after the first has converged,
\* changes no FIRST set.
C10_FirstIdempotent ==
  [][(firstCalls >= 1 /\ pc = "first") => firstSet' = firstSet]_vars

C10_Witness ==
  /\ pc = "firstDone"
  /\ firstCalls >= 2
  /\ \E s \in Symbols : Cardinality(firstSet[s]) >= 2

\* C11: after loadGrammar the terminal set and the nonterminal set are
\* disjoint.
loaded == pc # "load"

C11_ClassesDisjoint == loaded => terminals \cap nonTerminals = {}

\* C12: after loadGrammar neither "epsilon" nor "$" is a member of the
\* terminal set or of the nonterminal set.
C12_MarkersUnclassified ==
  (loaded /\ lhsSymbols \subseteq UpperInitial)
    => {"epsilon", "$"} \cap (terminals \cup nonTerminals) = {}

\* C13: after computeFirst has converged, "epsilon" is in FIRST(N) only if N
\* derives the empty sequence.
firstConverged == pc \notin {"load", "first"}

C13_EpsilonOnlyIfNullable ==
  (firstConverged /\ lhsSymbols \subseteq UpperInitial)
    => \A N \in nonTerminals : "epsilon" \in firstSet[N] => N \in Nullable

\* C14: during and after computeFollow no stored FOLLOW set contains
\* "epsilon".
C14_FollowHasNoEpsilon ==
  lhsSymbols \subseteq UpperInitial
    => \A s \in Symbols : "epsilon" \notin followSet[s]

\* C15: after buildParseTable the table holds, for every key claimed by some
\* rule, the last claiming rule in grammar order (the only one when a single
\* rule claims it), holds nothing for a key no rule claims, and the builder
\* has reported nothing.
tableBuilt == pc = "parse"

claimants(key) ==
  { r \in 1..Len(grammar) : grammar[r].lhs = key[1] /\ key[2] \in ruleCells(grammar[r]) }

claimedKeys ==
  UNION { { << grammar[r].lhs, t >> : t \in ruleCells(grammar[r]) } : r \in 1..Len(grammar) }

lastOf(rs) == CHOOSE r \in rs : \A q \in rs : q <= r

C15_LastClaimWins ==
  tableBuilt =>
    /\ DOMAIN parseTable = claimedKeys
    /\ \A key \in claimedKeys : parseTable[key] = grammar[lastOf(claimants(key))]
    /\ errFile = << >>

C15_Witness ==
  /\ pc = "parse"
  /\ \E key \in claimedKeys :
       \E r1, r2 \in claimants(key) : r1 < r2 /\ grammar[r1] # grammar[r2]
  /\ \E key \in claimedKeys : Cardinality(claimants(key)) = 1

\* C16: a Shift step (pop and advance the index) is taken only when the stack
\* top is a terminal of the grammar equal to the current token's type.
C16_ShiftStep == pc = "run" /\ index' = index + 1

C16_ShiftOnlyTerminal ==
  [][(C16_ShiftStep /\ lhsSymbols \subseteq UpperInitial)
       => (isTerminal(top) /\ top = currentToken)]_vars

\* C17: an Expand step replaces the popped nonterminal by the rule's
\* right-hand side without "epsilon", leftmost symbol on top, and the stack
\* never contains "epsilon".
notEpsilon(sym) == sym # "epsilon"

reversed(seq) == [i \in 1..Len(seq) |-> seq[Len(seq) + 1 - i]]

C17_ExpandStep ==
  pc = "run" /\ parseStack # << >> /\ isLookup /\ hasEntry /\ pc' = "run"

C17_ExpandPushesReversed ==
  [][C17_ExpandStep =>
       parseStack' = pop \o reversed(SelectSeq(parseTable[<< top, currentToken >>].rhs,
                                               notEpsilon))]_vars

C17_NoEpsilonOnStack ==
  \A k \in 1..Len(parseStack) : parseStack[k] # "epsilon"

\* C18: computeFollow, buildParseTable and parseTokens leave every FIRST set,
\* the terminal and nonterminal sets, the rule list and the start symbol as
\* computeFirst left them.
C18_FirstFrozen ==
  [][(pc \in {"firstDone", "follow", "table", "parse", "run"})
       => (firstSet' = firstSet /\ analysisVars' = analysisVars)]_vars

C18_Witness ==
  /\ pc = "run"
  /\ index >= 1
  /\ \E N \in nonTerminals \cap rhsSymbols :
       Cardinality(firstSet[N]) >= 2 /\ followSet[N] # {}

\* C19: every token read of parseTokens is made at a position inside the
\* token vector (the supplied tokens plus the appended one), the read of
\* input[index - 1] in Error-no-entry included.
C19_ReadsInBounds ==
  (pc = "run" /\ parseStack # << >> /\ Len(grammar) >= 1
     /\ lhsSymbols \subseteq UpperInitial)
    => /\ index + 1 \in 1..Len(input)
       /\ (isLookup /\ ~hasEntry) => ~readsOutside

\* C20: with "$" neither a left-hand side nor a right-hand-side symbol, the
\* stack of a running or finished parseTokens is non-empty, has "$" at the
\* bottom and nowhere else; the empty-stack exit is never taken.
C20_EndMarkerAtBottom ==
  (pc \in {"run", "done", "crashed"} /\ "$" \notin lhsSymbols \cup rhsSymbols)
    => /\ parseStack # << >>
       /\ parseStack[1] = "$"
       /\ \A k \in 2..Len(parseStack) : parseStack[k] # "$"

C20_Witness ==
  /\ pc = "done"
  /\ result = "true"
  /\ startSymbol = "S"
  /\ "$" \notin lhsSymbols \cup rhsSymbols
  /\ index = 1
  /\ Len(input) = 3
  /\ input[2].type = "$"
  /\ parseStack = << "$" >>

====
